---- MODULE Spec2Model ----
(***************************************************************************)
(* Model of the Mr Beam plugin's legacy migration runner                   *)
(* (octoprint_mrbeam/migrate.py) and of its software update information    *)
(* service (octoprint_mrbeam/software_update_information.py).              *)
(***************************************************************************)
EXTENDS Integers, Sequences, FiniteSets, TLC

VARIABLES
    \* ---- migrate.py --------------------------------------------------
    settings_version,   \* plugin._settings ['version']
    plugin_version,     \* plugin._plugin_version
    device_series,      \* plugin._device_series
    profiles,           \* laserCutterProfileManager: stored profiles by id
    default_id,         \* laserCutterProfileManager: id of the default profile
    site_packages,      \* does /home/pi/site-packages exist
    egg_dirs,           \* versions of the Mr_Beam-<version> entries in it
    iptables,           \* state of /etc/network/if-up.d/iptables
    mig,                \* the Migration object of the last migrate() call
    \* ---- software_update_information.py: the generation pipeline ------
    gen_in,             \* arguments: cloud document, tier, beamos date, dict order
    gen_out,            \* result of _set_info_from_cloud_config
    beamos_out,         \* result of _generate_config_of_beamos
    \* ---- software_update_information.py: get_tag_of_github_repo --------
    tag_in,             \* what the request to the GitHub API meets
    tag_out,            \* result of get_tag_of_github_repo
    \* ---- software_update_information.py: the update information -------
    software_tier,      \* the stored setting dev.software_tier
    is_dev_env,         \* plugin.is_dev_env()
    device_beamos_date, \* the date get_beamos_version() reports
    tiers_prod,         \* the module level list SW_UPDATE_TIERS_PROD
    sw_update_plugin,   \* the softwareupdate plugin's cache, dirty and refresh flags
    call                \* the last call of the update information interface

mig_vars == <<settings_version, plugin_version, device_series, profiles,
              default_id, site_packages, egg_dirs, iptables, mig>>

gen_vars == <<gen_in, gen_out, beamos_out>>

tag_vars == <<tag_in, tag_out>>

upd_vars ==
    <<software_tier, is_dev_env, device_beamos_date, tiers_prod, sw_update_plugin, call>>

vars == <<mig_vars, gen_vars, tag_vars, upd_vars>>

\* The values of a part of the state while another part is exercised
NoCall == [op |-> "none"]
GenerateIdle == gen_in = <<>> /\ gen_out = <<>> /\ beamos_out = <<>>
TagIdle == tag_in = <<>> /\ tag_out = <<>>
UpdateIdle ==
    /\ software_tier = "" /\ is_dev_env = FALSE /\ device_beamos_date = 0
    /\ tiers_prod = <<>>
    /\ sw_update_plugin = <<>> /\ call = NoCall

(***************************************************************************)
(* Version strings.  A string is modelled by its dot separated numeric     *)
(* components and what follows them: "" nothing, "a1"/"b1" a pre-release   *)
(* tag, "x" anything else.  None is the absent value.                      *)
(***************************************************************************)
MaxPatch == 20

Str(nums, tag) == [nums |-> nums, tag |-> tag]
None == Str(<<>>, "None")

\* distutils.version.StrictVersion: two or three components and an optional
\* pre-release tag; anything else is a ValueError.
StrictVersionValid(s) ==
    /\ s.tag \in {"", "a1", "b1"}
    /\ Len(s.nums) \in {2, 3}

PreRank(tag) == CASE tag = "a1" -> 1 [] tag = "b1" -> 2 [] OTHER -> 3

\* The parsed value: (major, minor, patch) with patch 0 when it is missing,
\* then the pre-release (a final release sorts after its pre-releases).
StrictVersion(s) ==
    <<s.nums[1], s.nums[2], IF Len(s.nums) = 3 THEN s.nums[3] ELSE 0, PreRank(s.tag)>>

RECURSIVE TupleLess(_, _, _)
TupleLess(a, b, i) ==
    IF i > Len(a) THEN FALSE
    ELSE IF a[i] # b[i] THEN a[i] < b[i]
    ELSE TupleLess(a, b, i + 1)

VersionLess(a, b) == TupleLess(StrictVersion(a), StrictVersion(b), 1)
VersionEqual(a, b) == StrictVersion(a) = StrictVersion(b)

V_0_1_13 == Str(<<0, 1, 13>>, "")
VERSION_DELETE_EGG_DIR_LEFTOVERS == Str(<<0, 1, 17>>, "")
VERSION_SETUP_IPTABLES == Str(<<0, 1, 19>>, "")

\* The stored versions considered: around each threshold and up to 0.1.MaxPatch,
\* a two component version, a pre-release, and strings that do not parse.
ValidVersionStrings ==
    {Str(<<0, 1, p>>, "") : p \in {12, 13, 17, 18, 19, MaxPatch}}
        \cup {Str(<<0, 2>>, ""), Str(<<0, 1, 19>>, "a1")}
InvalidVersionStrings == {Str(<<0, 1, 2, 3>>, ""), Str(<<0, 1, 19>>, "x")}
VersionStrings == ValidVersionStrings \cup InvalidVersionStrings

\* The plugin versions a device may run.
PluginVersions ==
    {Str(<<0, 1, MaxPatch>>, ""), Str(<<0, 2>>, ""), Str(<<0, 1, 19>>, "x")}

(***************************************************************************)
(* migrate.py                                                              *)
(***************************************************************************)
DeviceSeries == {"2C", "2D", "2X", "2E"}

\* "MrBeam{}".format(series)
ProfileIdOf(series) ==
    CASE series = "2C" -> "MrBeam2C"
      [] series = "2D" -> "MrBeam2D"
      [] series = "2X" -> "MrBeam2X"
      [] OTHER -> "MrBeam2E"

\* A profile: the fields the migration reads or writes.  0 stands for a
\* field that is not set.
Profile(id, name, model, intensity, dust, legacy_x) ==
    [id |-> id, name |-> name, model |-> model, intensity_factor |-> intensity,
     auto_mode_time |-> dust, job_done_home_position_x |-> legacy_x]

GenericProfile == Profile("my_default", "Dummy Laser", "X", 0, 300, 0)
ShippedProfile(series) == Profile(ProfileIdOf(series), "MrBeam2", "B", 0, 300, 0)

\* laserCutterProfileManager
ProfileExists(m, id) == id \in DOMAIN m.profiles
ProfileGetDefault(m) ==
    IF m.default_id \in DOMAIN m.profiles THEN m.profiles[m.default_id] ELSE GenericProfile
ProfileSetDefault(m, id) == [m EXCEPT !.default_id = id]
ProfileSave(m, p) ==
    [m EXCEPT !.profiles = [i \in DOMAIN m.profiles \cup {p.id} |->
                                IF i = p.id THEN p ELSE m.profiles[i]],
              !.default_id = p.id]

\* The working state of one run: the stores the run writes, the calls it
\* made (log) and the exception that ended it ("" while none).
Called(m, what) == [m EXCEPT !.log = Append(m.log, what)]
Raise(m, what) == [m EXCEPT !.exc = what]
Faulty(m, point) == m.fault = point

\* save_current_version
SaveCurrentVersionForced(m) ==
    [Called(m, "save_current_version") EXCEPT !.version = m.current]
SaveCurrentVersion(m) == SaveCurrentVersionForced(m)

\* _compare_versions: "True", "False" or "None"
CompareVersionsLoose(lower, higher, equal_ok) ==
    IF lower = None \/ higher = None THEN "None"
    ELSE IF ~StrictVersionValid(lower) \/ ~StrictVersionValid(higher) THEN "None"
    ELSE IF VersionLess(lower, higher) \/ VersionEqual(lower, higher) THEN "True"
    ELSE "False"
CompareVersions(lower, higher, equal_ok) ==
    IF lower = None \/ higher = None THEN "None"
    ELSE IF ~StrictVersionValid(lower) \/ ~StrictVersionValid(higher) THEN "None"
    ELSE IF VersionEqual(lower, higher) THEN (IF equal_ok THEN "True" ELSE "False")
    ELSE IF VersionLess(lower, higher) THEN "True"
    ELSE "False"

IsMigrationRequiredLenient(previous, current) ==
    IF previous = None \/ ~StrictVersionValid(previous) THEN "True"
    ELSE IF ~StrictVersionValid(current) THEN "raise"
    ELSE IF VersionLess(previous, current) THEN "True"
    ELSE "False"
\* is_migration_required: "True", "False", "None", or "raise" when the
\* current version does not parse (line 60 is outside the inner try).
IsMigrationRequired(previous, current) ==
    IF previous = None THEN "True"
    ELSE IF ~StrictVersionValid(previous) THEN "None"
    ELSE IF ~StrictVersionValid(current) THEN "raise"
    ELSE IF VersionLess(previous, current) THEN "True"
    ELSE "False"

\* migrate_from_0_0_0
MigrateFrom000SavesThenRaises(m) ==
    IF Faulty(m, "migrate_from_0_0_0")
    THEN Raise([Called(m, "migrate_from_0_0_0") EXCEPT !.version = m.current], "Error")
    ELSE LET my_profile == [ProfileGetDefault(m) EXCEPT !.intensity_factor = 13,
                                                         !.auto_mode_time = 60]
         IN  ProfileSave(Called(m, "migrate_from_0_0_0"), my_profile)
MigrateFrom000(m) ==
    IF Faulty(m, "migrate_from_0_0_0") THEN Raise(Called(m, "migrate_from_0_0_0"), "Error")
    ELSE LET my_profile == [ProfileGetDefault(m) EXCEPT !.intensity_factor = 13,
                                                         !.auto_mode_time = 60]
         IN  ProfileSave(Called(m, "migrate_from_0_0_0"), my_profile)

\* delete_egg_dir_leftovers
DeleteEggDirLeftovers(m) ==
    IF Faulty(m, "delete_egg_dir_leftovers")
    THEN Raise(Called(m, "delete_egg_dir_leftovers"), "Error")
    ELSE IF m.site_packages
    THEN [Called(m, "delete_egg_dir_leftovers") EXCEPT !.egg_dirs =
            {v \in m.egg_dirs :
                CompareVersions(v, VERSION_DELETE_EGG_DIR_LEFTOVERS, FALSE) # "True"}]
    ELSE Called(m, "delete_egg_dir_leftovers")

\* _exec_cmd_output: the command exits with 0 ("ok"), exits with another
\* code ("fail", CalledProcessError, caught), or cannot be started
\* ("nostart", OSError, not caught).
CmdOutcomes == {"ok", "fail", "nostart"}
ExecCmdOutput(outcome) ==
    CASE outcome = "ok" -> [raised |-> FALSE, output |-> "stdout", code |-> 0]
      [] outcome = "fail" -> [raised |-> FALSE, output |-> "stdout+stderr", code |-> 1]
      [] OTHER -> [raised |-> TRUE, output |-> "", code |-> 0]

\* setup_iptables: write the script, chmod +x, execute it.
IptablesStepGoesOn(m, n, name, result) ==
    LET r == ExecCmdOutput(m.cmds[n])
        m1 == Called(m, name)
    IN  IF r.raised THEN [next |-> FALSE, m |-> Raise(m1, "OSError")]
        ELSE IF r.code # 0 THEN [next |-> TRUE, m |-> m1]
        ELSE [next |-> TRUE, m |-> [m1 EXCEPT !.iptables = result]]
IptablesStep(m, n, name, result) ==
    LET r == ExecCmdOutput(m.cmds[n])
        m1 == Called(m, name)
    IN  IF r.raised THEN [next |-> FALSE, m |-> Raise(m1, "OSError")]
        ELSE IF r.code # 0 THEN [next |-> FALSE, m |-> m1]
        ELSE [next |-> TRUE, m |-> [m1 EXCEPT !.iptables = result]]

SetupIptables(m) ==
    LET m0 == Called(m, "setup_iptables")
        s1 == IptablesStep(m0, 1, "iptables_write", "written")
        s2 == IF s1.next THEN IptablesStep(s1.m, 2, "iptables_chmod", "executable") ELSE s1
        s3 == IF s2.next THEN IptablesStep(s2.m, 3, "iptables_execute", "loaded") ELSE s2
    IN  IF Faulty(m, "setup_iptables") THEN Raise(m0, "Error") ELSE s3.m

\* set_lasercutterPorfile_2all
SetLasercutterProfile2all(m) ==
    LET profile_id == ProfileIdOf(m.series)
    IN  IF ProfileExists(m, profile_id) THEN ProfileSetDefault(m, profile_id) ELSE m

\* set_lasercutterPorfile_2C
SetLasercutterProfile2CAlwaysSaves(m) ==
    ProfileSave(m, [ProfileGetDefault(m) EXCEPT !.id = "MrBeam2C",
                                                 !.name = "MrBeam2",
                                                 !.model = "C",
                                                 !.job_done_home_position_x = 250])
SetLasercutterProfile2C(m) ==
    IF ProfileExists(m, "MrBeam2C") THEN ProfileSetDefault(m, "MrBeam2C")
    ELSE ProfileSave(m, [ProfileGetDefault(m) EXCEPT !.id = "MrBeam2C",
                                                     !.name = "MrBeam2",
                                                     !.model = "C",
                                                     !.job_done_home_position_x = 250])

\* set_lasercutterPorfile_2D
SetLasercutterProfile2D(m) ==
    IF ProfileExists(m, "MrBeam2D") THEN ProfileSetDefault(m, "MrBeam2D")
    ELSE ProfileSave(m, [ProfileGetDefault(m) EXCEPT !.id = "MrBeam2D",
                                                     !.name = "MrBeam2",
                                                     !.model = "D"])

\* is_lasercutterProfile_set
IsLasercutterProfileSet(m) == ProfileGetDefault(m).id # "my_default"

\* set_lasercutterProfile
SetLasercutterProfile(m) ==
    LET m0 == Called(m, "set_lasercutterProfile")
        assigned == CASE m.series = "2C" -> SetLasercutterProfile2C(m0)
                      [] m.series = "2D" -> SetLasercutterProfile2D(m0)
                      [] OTHER -> SetLasercutterProfile2all(m0)
    IN  IF ProfileGetDefault(m).id # "my_default" THEN m
        ELSE IF Faulty(m, "set_lasercutterProfile") THEN Raise(m0, "Error")
        ELSE IF m.series = "2X" THEN m0
        ELSE IF Faulty(m, "assignment_save") THEN Raise(assigned, "Error")
        ELSE SaveCurrentVersion(assigned)

\* One gated step of run(): executed when the previous version is absent or
\* strictly below the threshold.
Gate(m, threshold) ==
    m.previous = None \/ CompareVersions(m.previous, threshold, FALSE) = "True"

\* Line 29 of run(): the default-profile assignment
AssignmentPhase(m) ==
    IF Faulty(m, "is_lasercutterProfile_set") THEN Raise(m, "Error")
    ELSE IF ~IsLasercutterProfileSet(m) THEN SetLasercutterProfile(m)
    ELSE m

\* What the assignment left behind, kept for the record of the run
AfterAssignment(a) ==
    [profiles |-> a.profiles, default_id |-> a.default_id, version |-> a.version,
     exc |-> a.exc, log |-> a.log]

\* The body of run()'s try block.
RunBody(m) ==
    LET a == AssignmentPhase(m)
        required == IsMigrationRequired(m.previous, m.current)
        s1 == IF Gate(a, V_0_1_13) THEN MigrateFrom000(a) ELSE a
        s2 == IF s1.exc # "" THEN s1
              ELSE IF Gate(s1, VERSION_DELETE_EGG_DIR_LEFTOVERS)
              THEN DeleteEggDirLeftovers(s1)
              ELSE s1
        s3 == IF s2.exc # "" THEN s2
              ELSE IF Gate(s2, VERSION_SETUP_IPTABLES) THEN SetupIptables(s2)
              ELSE s2
    IN  IF a.exc # "" THEN a
        ELSE IF required = "raise" THEN Raise(a, "ValueError")
        ELSE IF required # "True" THEN a
        ELSE IF s3.exc # "" THEN s3
        ELSE IF Faulty(m, "save_current_version")
        THEN Raise(Called(s3, "save_current_version"), "Error")
        ELSE SaveCurrentVersion(s3)

\* run(): whatever the body raises is logged and swallowed.
Run(m) ==
    [RunBody(m) EXCEPT !.propagated = FALSE, !.assigned = AfterAssignment(AssignmentPhase(m))]

\* The operations that may fail with an exception of their own, and the
\* outcomes of the three shell commands of setup_iptables (those after the
\* first one that does not exit with 0 are never run).
FaultPoints ==
    {"", "settings_get", "is_lasercutterProfile_set", "set_lasercutterProfile",
     "assignment_save", "migrate_from_0_0_0", "delete_egg_dir_leftovers",
     "setup_iptables", "save_current_version"}
AllOk == <<"ok", "ok", "ok">>
CmdRuns ==
    {AllOk, <<"ok", "ok", "fail">>, <<"ok", "ok", "nostart">>,
     <<"ok", "fail", "ok">>, <<"ok", "nostart", "ok">>,
     <<"fail", "ok", "ok">>, <<"nostart", "ok", "ok">>}
\* A fault before the shell commands leaves their outcomes unread.
MigrateInputs ==
    {<<f, AllOk>> : f \in FaultPoints}
        \cup {<<f, c>> : f \in {"", "save_current_version"}, c \in CmdRuns}

\* Migration.__init__ : reads the previous version, outside any try block.
MigrationInit(fault, cmds) ==
    [previous |-> settings_version, current |-> plugin_version,
     series |-> device_series, default_before |-> default_id,
     profiles_before |-> profiles, assigned |-> <<>>,
     version |-> settings_version, profiles |-> profiles, default_id |-> default_id,
     site_packages |-> site_packages, egg_dirs |-> egg_dirs, iptables |-> iptables,
     fault |-> fault, cmds |-> cmds, log |-> <<>>, exc |-> "",
     propagated |-> FALSE, called |-> TRUE]

\* migrate(plugin): Migration(plugin).run()
MigrateCall(fault, cmds) ==
    LET m == MigrationInit(fault, cmds)
    IN  IF Faulty(m, "settings_get")
        THEN [Raise(m, "Error") EXCEPT !.propagated = TRUE, !.previous = None]
        ELSE Run(m)

Migrate(fault, cmds) ==
    LET m == MigrateCall(fault, cmds)
    IN  /\ mig' = [m EXCEPT !.fault = ""]
        /\ settings_version' = m.version
        /\ profiles' = m.profiles
        /\ default_id' = m.default_id
        /\ egg_dirs' = m.egg_dirs
        /\ iptables' = m.iptables
        /\ UNCHANGED <<plugin_version, device_series, site_packages>>

NoMigration ==
    [previous |-> None, current |-> None, series |-> "", default_before |-> "",
     profiles_before |-> <<>>, assigned |-> <<>>,
     version |-> None, profiles |-> <<>>, default_id |-> "",
     site_packages |-> FALSE, egg_dirs |-> {}, iptables |-> "absent",
     fault |-> "", cmds |-> AllOk, log |-> <<>>, exc |-> "",
     propagated |-> FALSE, called |-> FALSE]

\* The profile store of a device: the generic placeholder is the default
\* (the store empty, or holding the unused 'MrBeam2B' of the series C image),
\* or the series' own profile exists (and may be the default).
UnusedProfile == Profile("MrBeam2B", "MrBeam2", "B", 0, 300, 0)
ProfileStores(series) ==
    {[profiles |-> [i \in {} |-> GenericProfile], default_id |-> "my_default"],
     [profiles |-> [i \in {"MrBeam2B"} |-> UnusedProfile], default_id |-> "my_default"],
     [profiles |-> [i \in {ProfileIdOf(series)} |-> ShippedProfile(series)],
      default_id |-> "my_default"],
     [profiles |-> [i \in {ProfileIdOf(series)} |-> ShippedProfile(series)],
      default_id |-> ProfileIdOf(series)]}

InitMigration ==
    /\ settings_version \in VersionStrings \cup {None}
    /\ plugin_version \in PluginVersions
    /\ device_series \in DeviceSeries
    /\ \E s \in ProfileStores(device_series) :
          profiles = s.profiles /\ default_id = s.default_id
    /\ \/ site_packages = FALSE /\ egg_dirs = {}
       \/ /\ site_packages = TRUE
          /\ egg_dirs = {Str(<<0, 1, 12>>, ""), Str(<<0, 1, MaxPatch>>, ""),
                         Str(<<0, 1, 2, 3>>, "")}
    /\ iptables = "absent"
    /\ mig = NoMigration

NextMigration ==
    (\E i \in MigrateInputs : Migrate(i[1], i[2])) /\ UNCHANGED <<gen_vars, tag_vars, upd_vars>>

StartMigration == InitMigration /\ GenerateIdle /\ TagIdle /\ UpdateIdle
SpecMigration == StartMigration /\ [][NextMigration]_vars

(***************************************************************************)
(* software_update_information.py: dictionaries.                           *)
(* A (nested) dict is the function from the paths of its leaves to their    *)
(* values: {"a": 1, "b": {"x": 2}} is (<<"a">> :> 1 @@ <<"b", "x">> :> 2).  *)
(***************************************************************************)
EmptyDict == [p \in {} |-> ""]
Keys(d) == {p[1] : p \in DOMAIN d}
IsPrefix(p, q) == Len(p) <= Len(q) /\ SubSeq(q, 1, Len(p)) = p

\* d[k], a dict
Sub(d, k) ==
    [q \in {Tail(p) : p \in {x \in DOMAIN d : x[1] = k /\ Len(x) > 1}} |-> d[<<k>> \o q]]
\* {k: d}
Nest(k, d) == [p \in {<<k>> \o q : q \in DOMAIN d} |-> d[Tail(p)]]
\* d without the keys ks
Without(d, ks) == [p \in {x \in DOMAIN d : x[1] \notin ks} |-> d[p]]
\* d[k] = v, a scalar
SetKey(d, k, v) ==
    [p \in DOMAIN Without(d, {k}) \cup {<<k>>} |-> IF p = <<k>> THEN v ELSE d[p]]

\* octoprint_mrbeam.util.dict_merge: the second argument wins; two mappings
\* under the same key are merged recursively, anything else is replaced.
DictMerge(d1, d2) ==
    [p \in {x \in DOMAIN d1 : \A q \in DOMAIN d2 : ~IsPrefix(q, x) /\ ~IsPrefix(x, q)}
           \cup DOMAIN d2 |->
        IF p \in DOMAIN d2 THEN d2[p] ELSE d1[p]]

(***************************************************************************)
(* software_update_information.py: tiers and dates.                        *)
(***************************************************************************)
SW_UPDATE_TIERS_DEV == <<"ALPHA", "DEV">>
SW_UPDATE_TIERS_PROD == <<"PROD", "BETA">>
SW_UPDATE_TIERS == SW_UPDATE_TIERS_DEV \o SW_UPDATE_TIERS_PROD
InList(x, list) == \E i \in 1..Len(list) : list[i] = x

\* _get_tier_by_id: DEFAULT_REPO_BRANCH_ID.get(tier, tier)
GetTierById(tier) ==
    CASE tier = "PROD" -> "stable"
      [] tier = "BETA" -> "beta"
      [] tier = "ALPHA" -> "alpha"
      [] tier = "DEV" -> "develop"
      [] OTHER -> tier

\* datetime.strptime(date, "%Y-%m-%d").date(), as the number yyyymmdd
ParseDate(s) ==
    CASE s = "2000-01-01" -> 20000101
      [] s = "2020-01-01" -> 20200101
      [] s = "2021-06-01" -> 20210601
      [] s = "2021-09-01" -> 20210901
      [] OTHER -> 20220101
SentinelDate == ParseDate("2000-01-01")

\* The keys of d in the order a loop over d.items() yields them: the order of
\* a Python 2 dict is arbitrary, `order` is the one the run happens to have.
ItemsOrder(d, order) == LET Present(k) == k \in Keys(d) IN SelectSeq(order, Present)

\* One beamos_date entry, overlaid with its own tier sub-object (lines 482-486)
BeamosEntry(beamos_config, tierversion) ==
    IF tierversion \in Keys(beamos_config)
    THEN DictMerge(beamos_config, Sub(beamos_config, tierversion))
    ELSE beamos_config

\* The loop of _generate_config_of_beamos over the entries dates[i..], with
\* the running prev_beamos_date_entry and beamos_date_config.
RECURSIVE BeamosLoop(_, _, _, _, _, _, _)
BeamosLoopUpTo(entries, dates, i, beamos_date, tierversion, prev, config) ==
    IF i > Len(dates) THEN config
    ELSE IF beamos_date >= ParseDate(dates[i])
    THEN BeamosLoop(entries, dates, i + 1, beamos_date, tierversion, ParseDate(dates[i]),
                    DictMerge(config, BeamosEntry(Sub(entries, dates[i]), tierversion)))
    ELSE BeamosLoop(entries, dates, i + 1, beamos_date, tierversion, prev, config)
BeamosLoop(entries, dates, i, beamos_date, tierversion, prev, config) ==
    IF i > Len(dates) THEN config
    ELSE IF beamos_date >= ParseDate(dates[i]) /\ prev < beamos_date
    THEN BeamosLoop(entries, dates, i + 1, beamos_date, tierversion, ParseDate(dates[i]),
                    DictMerge(config, BeamosEntry(Sub(entries, dates[i]), tierversion)))
    ELSE BeamosLoop(entries, dates, i + 1, beamos_date, tierversion, prev, config)

\* _generate_config_of_beamos
GenerateConfigOfBeamos(moduleconfig, beamos_date, tierversion, order) ==
    IF "beamos_date" \notin Keys(moduleconfig) THEN EmptyDict
    ELSE LET entries == Sub(moduleconfig, "beamos_date")
         IN  BeamosLoop(entries, ItemsOrder(entries, order), 1, beamos_date, tierversion,
                        SentinelDate, EmptyDict)

\* _clean_update_config
PopList == {"alpha", "beta", "stable", "develop", "beamos_date", "name"}
CleanUpdateConfig(update_config) == Without(update_config, PopList)

\* The environment of _get_curent_version: GLOBAL_PIP_COMMAND (line 48), the
\* versions pip reports (get_version_of_pip_module) and the versions of the
\* plugins OctoPrint has loaded (plugin._plugin_manager.get_plugin_info).
GLOBAL_PIP_COMMAND == "sudo /usr/local/bin/pip"
PipVersion(package_name, pip_command) ==
    IF package_name = "mrb-hw-info" THEN "1.0.0" ELSE "None"
PluginInfoVersion(module_id) ==
    CASE module_id = "mrbeam" -> "0.15.0"
      [] module_id = "netconnectd" -> "0.1.2"
      [] OTHER -> "None"

\* _get_curent_version: the config (pip_command may be filled in) and the version
GetCurrentVersion(input_moduleconfig, module_id) ==
    LET c == IF "global_pip_command" \in Keys(input_moduleconfig)
                  /\ "pip_command" \notin Keys(input_moduleconfig)
             THEN SetKey(input_moduleconfig, "pip_command", GLOBAL_PIP_COMMAND)
             ELSE input_moduleconfig
        package_name == IF <<"package_name">> \in DOMAIN c THEN c[<<"package_name">>]
                        ELSE module_id
    IN  [config |-> c,
         version |-> IF <<"pip_command">> \in DOMAIN c
                     THEN PipVersion(package_name, c[<<"pip_command">>])
                     ELSE PluginInfoVersion(module_id)]

\* str.format on the two placeholders the cloud document uses
FormatTier(branch, tierversion) ==
    IF branch = "mrbeam2-{tier}" THEN "mrbeam2-" \o tierversion ELSE branch
FormatUpdateScript(update_script) ==
    IF update_script = "{update_script}" THEN "/basefolder/scripts/update_script.py"
    ELSE update_script

\* _generate_config_of_module, lines 346-362: defaults, then the tier's
\* sub-object, then the beamos overrides, each merged over what is there.
ResolveBeforeTier(input_moduleconfig, defaultsettings, tier, beamos_date, order) ==
    LET tierversion == GetTierById(tier)
        c1 == DictMerge(defaultsettings, input_moduleconfig)
        c2 == DictMerge(c1, GenerateConfigOfBeamos(c1, beamos_date, tierversion, order))
    IN  IF tierversion \in Keys(c2) THEN DictMerge(c2, Sub(c2, tierversion)) ELSE c2
ResolveModuleConfig(input_moduleconfig, defaultsettings, tier, beamos_date, order) ==
    LET tierversion == GetTierById(tier)
        c1 == DictMerge(defaultsettings, input_moduleconfig)
        c2 == IF tierversion \in Keys(c1) THEN DictMerge(c1, Sub(c1, tierversion)) ELSE c1
    IN  DictMerge(c2, GenerateConfigOfBeamos(c2, beamos_date, tierversion, order))

\* _generate_config_of_module, lines 364-391
FinishModuleConfig(module_id, config, tier) ==
    LET c1 == IF <<"branch">> \in DOMAIN config
              THEN SetKey(config, "branch", FormatTier(config[<<"branch">>], GetTierById(tier)))
              ELSE config
        c2 == IF <<"update_script">> \in DOMAIN c1 /\ module_id = "mrbeam"
              THEN SetKey(c1, "update_script", FormatUpdateScript(c1[<<"update_script">>]))
              ELSE c1
        cv == GetCurrentVersion(c2, module_id)
        c3 == IF module_id # "octoprint"
              THEN SetKey(cv.config, "displayVersion",
                          IF cv.version # "None" THEN cv.version ELSE "-")
              ELSE cv.config
        c4 == IF <<"name">> \in DOMAIN c3 THEN SetKey(c3, "displayName", c3[<<"name">>])
              ELSE c3
    IN  CleanUpdateConfig(c4)

\* _generate_config_of_module for a tier of SW_UPDATE_TIERS (another tier
\* returns None: see SetInfoFromCloudConfig, the only caller)
RECURSIVE GenerateConfigOfModule(_, _, _, _, _, _)
GenerateConfigOfModule(module_id, input_moduleconfig, defaultsettings, tier, beamos_date, order) ==
    LET c == FinishModuleConfig(
                 module_id,
                 ResolveModuleConfig(input_moduleconfig, defaultsettings, tier,
                                     beamos_date, order),
                 tier)
        deps == Sub(c, "dependencies")
        Generated(name) ==
            Nest("dependencies",
                 Nest(name, GenerateConfigOfModule(name, Sub(deps, name), defaultsettings,
                                                   tier, beamos_date, order)))
        names == Keys(deps)
    IN  [p \in DOMAIN Without(c, {"dependencies"})
               \cup UNION {DOMAIN Generated(n) : n \in names} |->
            IF p[1] = "dependencies" THEN Generated(p[2])[p] ELSE c[p]]

\* A value that is None, or some value
NoValue == [none |-> TRUE, value |-> <<>>]
Some(v) == [none |-> FALSE, value |-> v]

\* Cloud documents: "empty" (falsy), "nomodules" (no "modules" key) or a
\* document with its "default" dict and its "modules" by module id.
CloudDoc(default, modules) == [kind |-> "doc", default |-> default, modules |-> modules]
EmptyDoc == [kind |-> "empty", default |-> EmptyDict, modules |-> <<>>]
NoModulesDoc == [kind |-> "nomodules", default |-> EmptyDict, modules |-> <<>>]

\* _set_info_from_cloud_config, lines 290-306: the per-module records
ModuleRecords(tier, beamos_date, cloud_config, order) ==
    LET defaultsettings == cloud_config.default
        modules == cloud_config.modules
    IN  IF InList(tier, SW_UPDATE_TIERS)
        THEN [module_id \in DOMAIN modules |->
                GenerateConfigOfModule(module_id,
                                       DictMerge(defaultsettings, modules[module_id]),
                                       defaultsettings, tier, beamos_date, order)]
        ELSE [module_id \in {} |-> EmptyDict]

\* _set_info_from_cloud_config: the value returned (or the exception raised),
\* the records computed, what happened on the way (the write of
\* update_info.json, a notification shown) and the text written
SetInfoResult(raised, ret, computed, events, written) ==
    [raised |-> raised, ret |-> ret, computed |-> computed, events |-> events,
     written |-> written]
SetInfoReturnsAnyway(tier, beamos_date, cloud_config, order, write_ok) ==
    LET sw_update_config == ModuleRecords(tier, beamos_date, cloud_config, order)
    IN  IF cloud_config.kind = "empty"
        THEN SetInfoResult("", NoValue, NoValue, <<>>, NoValue)
        ELSE IF cloud_config.kind = "nomodules"
        THEN SetInfoResult("KeyError", NoValue, NoValue, <<>>, NoValue)
        ELSE IF write_ok
        THEN SetInfoResult("", Some(sw_update_config), Some(sw_update_config),
                           <<"write">>, Some(sw_update_config))
        ELSE SetInfoResult("", Some(sw_update_config), Some(sw_update_config),
                           <<"write fails", "write_error_update_info_file_err">>, NoValue)
SetInfoFromCloudConfig(tier, beamos_date, cloud_config, order, write_ok) ==
    LET sw_update_config == ModuleRecords(tier, beamos_date, cloud_config, order)
    IN  IF cloud_config.kind = "empty"
        THEN SetInfoResult("", NoValue, NoValue, <<>>, NoValue)
        ELSE IF cloud_config.kind = "nomodules"
        THEN SetInfoResult("KeyError", NoValue, NoValue, <<>>, NoValue)
        ELSE IF write_ok
        THEN SetInfoResult("", Some(sw_update_config), Some(sw_update_config),
                           <<"write">>, Some(sw_update_config))
        ELSE SetInfoResult("", NoValue, Some(sw_update_config),
                           <<"write fails", "write_error_update_info_file_err">>, NoValue)

(***************************************************************************)
(* The generation pipeline on bounded cloud documents.  A document is a    *)
(* choice of at most MaxSlots places that define a value; the value names   *)
(* its place, so that a record shows where each of its values comes from.   *)
(***************************************************************************)
MaxSlots == 3

Date1 == "2020-01-01"
Date2 == "2021-06-01"
DictOrders == {<<Date1, Date2>>, <<Date2, Date1>>}
BeamosDates == {20180112, ParseDate(Date1), ParseDate(Date2), 20211201}
GenTiers == {"PROD", "BETA"}

Slot(where, path, value) == [where |-> where, path |-> path, value |-> value]
Slots ==
    {Slot("default", <<"k">>, "default"),
     Slot("default", <<"stable", "k">>, "default.stable"),
     Slot("default", <<"n", "k">>, "default"),
     Slot("default", <<"branch">>, "mrbeam2-{tier}"),
     Slot("module", <<"k">>, "module"),
     Slot("module", <<"n", "k">>, "module"),
     Slot("module", <<"stable", "k">>, "module.stable"),
     Slot("module", <<"stable", "n", "k">>, "module.stable"),
     Slot("module", <<"beamos_date", Date1, "k">>, "module.date1"),
     Slot("module", <<"beamos_date", Date2, "k">>, "module.date2"),
     Slot("module", <<"beamos_date", Date1, "stable", "k">>, "module.date1.stable"),
     Slot("module", <<"beamos_date", Date2, "n", "k">>, "module.date2"),
     Slot("module", <<"dependencies", "dep", "k">>, "dep"),
     Slot("module", <<"dependencies", "dep", "stable", "k">>, "dep.stable"),
     Slot("module", <<"dependencies", "dep", "beamos_date", Date1, "k">>, "dep.date1"),
     Slot("module", <<"update_script">>, "{update_script}")}

DictOfSlots(chosen, where) ==
    LET mine == {s \in chosen : s.where = where}
    IN  [p \in {s.path : s \in mine} |-> (CHOOSE s \in mine : s.path = p).value]

\* Every module of a document has a name.
ModuleOfSlots(chosen) == SetKey(DictOfSlots(chosen, "module"), "name", "MrBeam Plugin")

GenModuleId == "mrbeam"
GenDoc(chosen) ==
    CloudDoc(DictOfSlots(chosen, "default"),
             [id \in {GenModuleId} |-> ModuleOfSlots(chosen)])

NotRun == SetInfoResult("not run", NoValue, NoValue, <<>>, NoValue)

InitGenerate ==
    /\ \E chosen \in SUBSET Slots :
          /\ Cardinality(chosen) <= MaxSlots
          /\ \E tier \in GenTiers, date \in BeamosDates, order \in DictOrders :
                gen_in = [cloud_config |-> GenDoc(chosen), tier |-> tier,
                          beamos_date |-> date, order |-> order]
    /\ gen_out = NotRun
    /\ beamos_out = NoValue

\* _set_info_from_cloud_config(plugin, tier, beamos_date, cloud_config)
SetInfo ==
    /\ gen_out = NotRun
    /\ gen_out' = SetInfoFromCloudConfig(gen_in.tier, gen_in.beamos_date,
                                         gen_in.cloud_config, gen_in.order, TRUE)
    /\ UNCHANGED <<gen_in, beamos_out, mig_vars, tag_vars, upd_vars>>

\* _generate_config_of_beamos(moduleconfig, beamos_date, tierversion) on the
\* module of the document
GenerateBeamos ==
    /\ beamos_out = NoValue
    /\ beamos_out' = Some(GenerateConfigOfBeamos(gen_in.cloud_config.modules[GenModuleId],
                                                gen_in.beamos_date,
                                                GetTierById(gen_in.tier), gen_in.order))
    /\ UNCHANGED <<gen_in, gen_out, mig_vars, tag_vars, upd_vars>>

NextGenerate == SetInfo \/ GenerateBeamos

MigrationIdle ==
    /\ settings_version = None /\ plugin_version = None /\ device_series = ""
    /\ profiles = <<>> /\ default_id = "" /\ site_packages = FALSE /\ egg_dirs = {}
    /\ iptables = "absent" /\ mig = NoMigration

StartGenerate == InitGenerate /\ MigrationIdle /\ TagIdle /\ UpdateIdle
SpecGenerate == StartGenerate /\ [][NextGenerate]_vars

(***************************************************************************)
(* software_update_information.py: get_tag_of_github_repo                  *)
(***************************************************************************)
MAJOR_VERSION_CLOUD_CONFIG == 0
MaxTags == 3

\* A tag name: its first character ("v", or the first digit when the name
\* has no prefix) and the numbers that follow.
Tag(lead, nums) == [lead |-> lead, nums |-> nums]
TagNames ==
    {Tag("v", <<major, minor, 0>>) : major \in 0..2, minor \in 1..2}
        \cup {Tag("", <<0, 3, 0>>)}

\* semantic_version.Version(name[1:]): the first character is dropped,
\* whatever it is; what is left must be major.minor.patch.
SemverValid(tag) == tag.lead = "v" /\ Len(tag.nums) = 3
Semver(tag) == tag.nums
SemverLess(a, b) == TupleLess(a, b, 1)

\* Spec("<{}.0.0".format(MAJOR_VERSION_CLOUD_CONFIG + 1)).select(versionlist):
\* the greatest version that matches, None when there is none
SelectMajor(versionlist) ==
    LET matching == {v \in versionlist : v[1] < MAJOR_VERSION_CLOUD_CONFIG + 1}
    IN  IF matching = {} THEN NoValue
        ELSE Some(CHOOSE v \in matching : \A w \in matching : ~SemverLess(v, w))

\* What s.request / raise_for_status raise for each fate of the request.  The
\* session retries (Retry(connect=3), reads counted against the total), so a
\* read timeout ends as exhausted retries; requests reports exhausted retries
\* as ConnectionError, a connect timeout as ConnectTimeout.
RequestOutcomes ==
    {"connect_timeout", "read_timeout", "retries_exhausted", "connection_failed",
     "status_4xx", "status_5xx", "ok"}
RequestRaises(outcome) ==
    CASE outcome = "connect_timeout" -> "ConnectTimeout"
      [] outcome \in {"read_timeout", "retries_exhausted", "connection_failed"}
            -> "ConnectionError"
      [] outcome \in {"status_4xx", "status_5xx"} -> "HTTPError"
      [] OTHER -> ""

\* isinstance(exception, class) for the classes of the except clauses
IsInstance(raised, class) ==
    \/ raised = class
    \/ class = "ConnectionError" /\ raised \in {"ConnectTimeout", "ProxyError", "SSLError"}

\* the except clauses of get_tag_of_github_repo, lines 98-108
TagHandlersWithoutConnectionError == <<"MaxRetryError", "HTTPError">>
TagHandlers == <<"MaxRetryError", "HTTPError", "ConnectionError">>
Handled(raised) == \E i \in 1..Len(TagHandlers) : IsInstance(raised, TagHandlers[i])

\* get_tag_of_github_repo: the value returned, or the exception that leaves it
GetTagOfGithubRepo(outcome, tags) ==
    LET raised == RequestRaises(outcome)
    IN  IF raised # ""
        THEN IF Handled(raised) THEN [raised |-> "", ret |-> NoValue]
             ELSE [raised |-> raised, ret |-> NoValue]
        ELSE IF \E t \in tags : ~SemverValid(t)
        THEN [raised |-> "ValueError", ret |-> NoValue]
        ELSE [raised |-> "", ret |-> SelectMajor({Semver(t) : t \in tags})]

TagNotCalled == [raised |-> "not called", ret |-> NoValue]

InitTag ==
    /\ \E outcome \in RequestOutcomes, tags \in SUBSET TagNames :
          /\ Cardinality(tags) <= MaxTags
          /\ outcome # "ok" => tags = {}
          /\ tag_in = [outcome |-> outcome, tags |-> tags]
    /\ tag_out = TagNotCalled

GetTag ==
    /\ tag_out = TagNotCalled
    /\ tag_out' = GetTagOfGithubRepo(tag_in.outcome, tag_in.tags)
    /\ UNCHANGED tag_in

NextTag == GetTag /\ UNCHANGED <<mig_vars, gen_vars, upd_vars>>

StartTag == InitTag /\ MigrationIdle /\ GenerateIdle /\ UpdateIdle
SpecTag == StartTag /\ [][NextTag]_vars

(***************************************************************************)
(* software_update_information.py: get_update_information and the channel  *)
(* switch.  The plugin's state is the stored dev.software_tier, whether it  *)
(* runs in a development environment, the BeamOS image date and the three  *)
(* attributes of OctoPrint's softwareupdate plugin the code assigns.       *)
(***************************************************************************)
SwUpdatePlugin(version_cache, version_cache_dirty, refresh_configured_checks) ==
    [version_cache |-> version_cache, version_cache_dirty |-> version_cache_dirty,
     refresh_configured_checks |-> refresh_configured_checks]

\* _clear_version_cache
ClearVersionCacheOnly(sw) == [sw EXCEPT !.version_cache = {}]
ClearVersionCache(sw) == [sw EXCEPT !.version_cache = {}, !.version_cache_dirty = TRUE]

\* reload_update_info
ReloadWithoutRefresh(sw) == ClearVersionCache(sw)
ReloadUpdateInfoOf(sw) == ClearVersionCache([sw EXCEPT !.refresh_configured_checks = TRUE])

\* software_channels_available: the list returned and the module level list
\* afterwards.  `ret` is a deep copy (line 218), so `ret += ...` (line 221)
\* extends the copy; on the list itself it would extend SW_UPDATE_TIERS_PROD.
ChannelsResult(ret, module_list) == [ret |-> ret, module_list |-> module_list]
ChannelsWithoutCopy(module_list, dev_env) ==
    IF dev_env
    THEN ChannelsResult(module_list \o SW_UPDATE_TIERS_DEV, module_list \o SW_UPDATE_TIERS_DEV)
    ELSE ChannelsResult(module_list, module_list)
SoftwareChannelsAvailable(module_list, dev_env) ==
    IF dev_env
    THEN ChannelsResult(module_list \o SW_UPDATE_TIERS_DEV, module_list)
    ELSE ChannelsResult(module_list, module_list)

\* A dict given by its <<path, value>> pairs
DictOf(pairs) == [p \in {x[1] : x \in pairs} |-> (CHOOSE x \in pairs : x[1] = p)[2]]

\* the document of lines 168-200
DefaultModule(name) ==
    DictOf({<<<<"name">>, name>>, <<<<"type">>, "github_commit">>, <<<<"user">>, "">>,
            <<<<"repo">>, "">>, <<<<"pip">>, "">>})
DefaultNames ==
    [module_id \in {"mrbeam", "mrbeamdoc", "netconnectd", "findmymrbeam"} |->
        CASE module_id = "mrbeam" -> " MrBeam Plugin"
          [] module_id = "mrbeamdoc" -> "Mr Beam Documentation"
          [] module_id = "netconnectd" -> "OctoPrint-Netconnectd Plugin"
          [] OTHER -> "OctoPrint-FindMyMrBeam"]
DefaultDoc ==
    CloudDoc(EmptyDict, [module_id \in DOMAIN DefaultNames |->
                            DefaultModule(DefaultNames[module_id])])

\* A document as beamos_config serves it
CloudDefault ==
    DictOf({<<<<"type">>, "github_commit">>, <<<<"user">>, "mrbeam">>,
            <<<<"branch">>, "mrbeam2-{tier}">>, <<<<"beta", "prerelease">>, "true">>})
CloudMrbeam ==
    DictOf({<<<<"name">>, " MrBeam Plugin">>, <<<<"repo">>, "MrBeamPlugin">>,
            <<<<"update_script">>, "{update_script}">>,
            <<<<"beamos_date", Date1, "pip">>, "pip.date1">>,
            <<<<"beamos_date", Date2, "pip">>, "pip.date2">>,
            <<<<"dependencies", "mrb-hw-info", "repo">>, "mrb_hw_info">>,
            <<<<"dependencies", "mrb-hw-info", "global_pip_command">>, "true">>})
CloudNetconnectd ==
    DictOf({<<<<"name">>, "OctoPrint-Netconnectd Plugin">>,
            <<<<"repo">>, "OctoPrint-Netconnectd">>})
SampleCloudDoc ==
    CloudDoc(CloudDefault,
             [module_id \in {"mrbeam", "netconnectd"} |->
                 IF module_id = "mrbeam" THEN CloudMrbeam ELSE CloudNetconnectd])

\* What one call of get_update_information meets: the step that raises an
\* unexpected exception (if any), the answer of the connectivity check, the
\* fate of the tag request and the tags listed, the document fetched, whether
\* update_info.json can be written, the order of the beamos_date items.
UpdateInput(fault, online, outcome, tags, doc, write_ok, order) ==
    [fault |-> fault, online |-> online, outcome |-> outcome, tags |-> tags,
     doc |-> doc, write_ok |-> write_ok, order |-> order]

\* The course of a call: the exception that leaves it, the step that raised,
\* the document it generates from, what it showed and did before generating
Course(propagated, failed, path, events) ==
    [propagated |-> propagated, failed |-> failed, path |-> path, events |-> events]
Default(failed, events) == Course("", failed, "default", events)

\* lines 149-160: no cloud config was obtained
NoCloudConfig(fault) ==
    IF fault = "show_notifications" THEN Default("show_notifications", <<>>)
    ELSE IF fault = "get_plugin_info"
    THEN Default("get_plugin_info", <<"missing_updateinformation_info">>)
    ELSE Default("", <<"missing_updateinformation_info", "_clear_version_cache">>)

\* lines 122-147: the course up to the generation
CourseOf(in) ==
    LET config_tag == GetTagOfGithubRepo(in.outcome, in.tags)
    IN  IF in.fault \in {"settings_get", "get_beamos_version"}
        THEN Course("UnboundLocalError", in.fault, "", <<>>)
        ELSE IF in.fault = "check_immediately" THEN Default("check_immediately", <<>>)
        ELSE IF ~in.online THEN NoCloudConfig(in.fault)
        ELSE IF config_tag.raised # "" THEN Default("get_tag_of_github_repo", <<>>)
        ELSE IF config_tag.ret.none THEN NoCloudConfig(in.fault)
        ELSE IF in.fault = "get_file_of_repo_for_tag"
        THEN Default("get_file_of_repo_for_tag", <<>>)
        ELSE IF in.doc.kind = "empty" THEN NoCloudConfig(in.fault)
        ELSE Course("", "", "cloud", <<>>)

\* What the call hands back and leaves behind, given its course and what
\* _set_info_from_cloud_config made of the document it ended with
UpdateResult(course, cloud_raised, generated, sw) ==
    [propagated |-> course.propagated,
     failed |-> IF cloud_raised THEN "_set_info_from_cloud_config" ELSE course.failed,
     path |-> IF cloud_raised THEN "default" ELSE course.path,
     cloud_obtained |-> course.path = "cloud",
     ret |-> generated.ret, computed |-> generated.computed, written |-> generated.written,
     events |-> course.events \o generated.events,
     sw |-> IF "_clear_version_cache" \in {course.events[i] : i \in 1..Len(course.events)}
            THEN ClearVersionCache(sw) ELSE sw]

\* lines 143-145 and 161-201: the cloud result is returned unless the
\* generation raised; every other course generates from the default document
EndOfCall(course, first, tier, beamos_date, sw, in) ==
    IF course.path = "" THEN UpdateResult(course, FALSE, NotRun, sw)
    ELSE IF course.path = "cloud" /\ first.raised = ""
    THEN UpdateResult(course, FALSE, first, sw)
    ELSE UpdateResult(course, course.path = "cloud",
                      SetInfoFromCloudConfig(tier, beamos_date, DefaultDoc, in.order,
                                             in.write_ok),
                      sw)

\* get_update_information(plugin): lines 122-201
GetUpdateInformationOf(tier, beamos_date, sw, in) ==
    EndOfCall(CourseOf(in),
              IF CourseOf(in).path = "cloud"
              THEN SetInfoFromCloudConfig(tier, beamos_date, in.doc, in.order, in.write_ok)
              ELSE NotRun,
              tier, beamos_date, sw, in)

\* The inputs, one of each course a call can take
EligibleTags == {Tag("v", <<0, 1, 0>>)}
IneligibleTags == {Tag("v", <<1, 1, 0>>)}
MalformedTags == {Tag("", <<0, 3, 0>>)}
UpdateInputs ==
    {UpdateInput(f, TRUE, "ok", EligibleTags, SampleCloudDoc, TRUE, <<Date1, Date2>>) :
        f \in {"settings_get", "get_beamos_version", "check_immediately",
               "get_file_of_repo_for_tag"}}
    \cup {UpdateInput(f, FALSE, "ok", EligibleTags, SampleCloudDoc, TRUE, <<Date1, Date2>>) :
            f \in {"", "show_notifications", "get_plugin_info"}}
    \cup {UpdateInput("", TRUE, o, {}, SampleCloudDoc, TRUE, <<Date1, Date2>>) :
            o \in {"read_timeout", "status_5xx"}}
    \cup {UpdateInput("", TRUE, "ok", t, SampleCloudDoc, TRUE, <<Date1, Date2>>) :
            t \in {IneligibleTags, MalformedTags}}
    \cup {UpdateInput("", o, "ok", EligibleTags, d, FALSE, <<Date1, Date2>>) :
            o \in BOOLEAN, d \in {EmptyDoc, NoModulesDoc}}
    \cup {UpdateInput("check_immediately", TRUE, "ok", EligibleTags, EmptyDoc, FALSE,
                       <<Date1, Date2>>)}
    \cup {UpdateInput("", TRUE, "ok", EligibleTags, d, TRUE, <<Date1, Date2>>) :
            d \in {EmptyDoc, NoModulesDoc}}
    \cup {UpdateInput("", TRUE, "ok", EligibleTags, SampleCloudDoc, w, o) :
            w \in BOOLEAN, o \in DictOrders}

StoredTiers == {"PROD", "BETA", "ALPHA", "DEV", "TEST"}
ChannelNames == StoredTiers
UpdateBeamosDates == {ParseDate(Date1), ParseDate(Date2)}
VersionCaches == {{}, {"mrbeam"}}

Before == [software_tier |-> software_tier, sw |-> sw_update_plugin]

InitUpdate ==
    /\ software_tier \in {"PROD", "DEV", "TEST"}
    /\ is_dev_env \in BOOLEAN
    /\ device_beamos_date \in UpdateBeamosDates
    /\ tiers_prod = SW_UPDATE_TIERS_PROD
    /\ \E c \in VersionCaches, dirty \in BOOLEAN :
          sw_update_plugin = SwUpdatePlugin(c, dirty, FALSE)
    /\ call = NoCall

\* get_update_information(plugin)
GetUpdateInformation(in) ==
    \E r \in {GetUpdateInformationOf(software_tier, device_beamos_date, sw_update_plugin, in)} :
        /\ sw_update_plugin' = r.sw
        /\ call' = [op |-> "get_update_information", in |-> in, before |-> Before,
                    result |-> [x \in DOMAIN r \ {"sw"} |-> r[x]]]
        /\ UNCHANGED <<software_tier, is_dev_env, device_beamos_date, tiers_prod>>
        /\ UNCHANGED <<mig_vars, gen_vars, tag_vars>>

\* software_channels_available(plugin)
SoftwareChannels ==
    \E available \in {SoftwareChannelsAvailable(tiers_prod, is_dev_env)} :
        /\ tiers_prod' = available.module_list
        /\ call' = [op |-> "software_channels_available", ret |-> available.ret,
                    earlier |-> call.op]
        /\ UNCHANGED <<software_tier, is_dev_env, device_beamos_date, sw_update_plugin>>
        /\ UNCHANGED <<mig_vars, gen_vars, tag_vars>>

\* switch_software_channel(plugin, channel)
SwitchSoftwareChannel(channel) ==
    \E available \in {SoftwareChannelsAvailable(tiers_prod, is_dev_env)} :
        LET old_channel == software_tier
        IN  /\ IF InList(channel, available.ret) /\ channel # old_channel
               THEN /\ software_tier' = channel
                    /\ sw_update_plugin' = ReloadUpdateInfoOf(sw_update_plugin)
               ELSE UNCHANGED <<software_tier, sw_update_plugin>>
            /\ tiers_prod' = available.module_list
            /\ call' = [op |-> "switch_software_channel", channel |-> channel,
                        before |-> Before]
            /\ UNCHANGED <<is_dev_env, device_beamos_date>>
            /\ UNCHANGED <<mig_vars, gen_vars, tag_vars>>

\* reload_update_info(plugin)
ReloadUpdateInfo ==
    /\ sw_update_plugin' = ReloadUpdateInfoOf(sw_update_plugin)
    /\ call' = [op |-> "reload_update_info", before |-> Before]
    /\ UNCHANGED <<software_tier, is_dev_env, device_beamos_date, tiers_prod>>
    /\ UNCHANGED <<mig_vars, gen_vars, tag_vars>>

NextUpdate ==
    \/ \E in \in UpdateInputs : GetUpdateInformation(in)
    \/ \E channel \in ChannelNames : SwitchSoftwareChannel(channel)
    \/ SoftwareChannels
    \/ ReloadUpdateInfo

StartUpdate == InitUpdate /\ MigrationIdle /\ GenerateIdle /\ TagIdle
SpecUpdate == StartUpdate /\ [][NextUpdate]_vars

(***************************************************************************)
(* Claims about migrate(), checked under SpecMigration.                    *)
(***************************************************************************)
GatedNames == {"migrate_from_0_0_0", "delete_egg_dir_leftovers", "setup_iptables"}
IsGated(x) == x \in GatedNames
GatedLog == SelectSeq(mig.log, IsGated)

\* The steps whose threshold is strictly greater than the previous version,
\* in the fixed order (all of them when it is absent).
StepIfNewer(previous, threshold, name) ==
    IF previous = None \/ VersionLess(previous, threshold) THEN <<name>> ELSE <<>>
ExpectedSteps(previous) ==
    StepIfNewer(previous, V_0_1_13, "migrate_from_0_0_0")
        \o StepIfNewer(previous, VERSION_DELETE_EGG_DIR_LEFTOVERS, "delete_egg_dir_leftovers")
        \o StepIfNewer(previous, VERSION_SETUP_IPTABLES, "setup_iptables")

PreviousInvalid == mig.previous # None /\ ~StrictVersionValid(mig.previous)
PreviousValid == mig.previous # None /\ StrictVersionValid(mig.previous)

\* C1: no invocation of migrate(plugin) lets an exception propagate to its
\* caller, whichever operation fails (the settings read of the constructor
\* included).
C1_NoExceptionPropagates == mig.called => ~mig.propagated

\* C2: when the previous version is absent or a valid version strictly below
\* the current one, and nothing raises, exactly the gated steps with a
\* threshold strictly above the previous version run, in the fixed order, and
\* 'version' then holds the current version; when the previous version is a
\* valid version at or above the current one, no gated step runs.
C2_GatedStepsInOrder ==
    mig.called =>
        /\ (/\ mig.exc = ""
            /\ \/ mig.previous = None
               \/ /\ PreviousValid /\ StrictVersionValid(mig.current)
                  /\ VersionLess(mig.previous, mig.current))
           => /\ GatedLog = ExpectedSteps(mig.previous)
              /\ settings_version = mig.current
        /\ (/\ PreviousValid /\ StrictVersionValid(mig.current)
            /\ ~VersionLess(mig.previous, mig.current))
           => GatedLog = <<>>

\* A run from 0.1.18 to a newer version that applied only setup_iptables and
\* saved the current version.
C2_Witness ==
    /\ mig.called /\ mig.exc = ""
    /\ mig.previous = Str(<<0, 1, 18>>, "")
    /\ VersionLess(mig.previous, mig.current)
    /\ GatedLog = <<"setup_iptables">>
    /\ settings_version = mig.current

\* C3 as stated: with a previous version that is present but does not parse,
\* no gated step runs and 'version' is left unchanged, for every device series
\* and every initial default profile.
C3_InvalidPreviousLeavesVersion ==
    (mig.called /\ PreviousInvalid) =>
        /\ GatedLog = <<>>
        /\ settings_version = mig.previous

\* C3 amended: with a previous version that is present but does not parse, no
\* gated step runs; 'version' is left unchanged when the default profile was
\* not the generic one or the series is 2X, and otherwise the profile
\* assignment stores the current plugin version (unless it raises first).
AssignmentSaves == mig.default_before = "my_default" /\ mig.series # "2X"
C3_InvalidPreviousAmended ==
    (mig.called /\ PreviousInvalid) =>
        /\ GatedLog = <<>>
        /\ ~AssignmentSaves => settings_version = mig.previous
        /\ (AssignmentSaves /\ mig.exc = "") => settings_version = mig.current
        /\ settings_version \in {mig.previous, mig.current}

\* An unparsable previous version on a 2C device with the generic default
\* profile: the assignment ran and stored the current version.
C3_Witness ==
    /\ mig.called /\ PreviousInvalid /\ mig.exc = ""
    /\ mig.series = "2C" /\ mig.default_before = "my_default"
    /\ settings_version = mig.current /\ settings_version # mig.previous
    /\ GatedLog = <<>>

(***************************************************************************)
(* Claims about the generation pipeline, checked under SpecGenerate.       *)
(***************************************************************************)
GenTierversion == GetTierById(gen_in.tier)
GenDefault == gen_in.cloud_config.default
GenModule == gen_in.cloud_config.modules[GenModuleId]
GenRecord == gen_out.ret.value[GenModuleId]
GenGenerated == gen_out # NotRun /\ ~gen_out.ret.none

\* The four levels of a module (or dependency) config, highest precedence
\* first: the beamos-date-scoped override, the tier-named sub-object, the
\* module's own fields, the document's shared default.
TierLevel(defaults, config) ==
    DictMerge(Sub(defaults, GenTierversion), Sub(config, GenTierversion))
BeamosLevel(defaults, config) ==
    GenerateConfigOfBeamos(DictMerge(DictMerge(defaults, config), TierLevel(defaults, config)),
                           gen_in.beamos_date, GenTierversion, gen_in.order)
Levels(defaults, config) ==
    <<BeamosLevel(defaults, config), TierLevel(defaults, config), config, defaults>>
DefinedAt(levels, p) == {i \in 1..Len(levels) : p \in DOMAIN levels[i]}
Highest(levels, p) == CHOOSE i \in DefinedAt(levels, p) : \A j \in DefinedAt(levels, p) : i <= j

\* The plain configuration keys of the documents (not the working keys the
\* pipeline computes or strips), at nesting depth one and two.
OrdinaryPaths == {<<"k">>, <<"n", "k">>}
TakesHighest(record, levels) ==
    \A p \in OrdinaryPaths :
        /\ p \in DOMAIN record <=> DefinedAt(levels, p) # {}
        /\ p \in DOMAIN record => record[p] = levels[Highest(levels, p)][p]

GenDepConfig == Sub(Sub(GenModule, "dependencies"), "dep")
GenDepRecord == Sub(Sub(GenRecord, "dependencies"), "dep")
GenHasDep == "dep" \in Keys(Sub(GenModule, "dependencies"))

\* C8: the record of a module takes, for every key, the value of the
\* highest-precedence level that defines it (beamos-date override > tier
\* sub-object > the module's own field > shared default), at every nesting
\* depth, and so does the record of each of its dependencies.
C8_PrecedenceOfLevels ==
    GenGenerated =>
        /\ TakesHighest(GenRecord, Levels(GenDefault, GenModule))
        /\ GenHasDep => TakesHighest(GenDepRecord, Levels(GenDefault, GenDepConfig))

\* A key defined by the module itself, by its tier sub-object and by a
\* qualifying beamos_date entry: the record holds the beamos value.
C8_Witness ==
    /\ GenGenerated
    /\ DefinedAt(Levels(GenDefault, GenModule), <<"k">>) = {1, 2, 3}
    /\ GenRecord[<<"k">>] = "module.date1"

\* The beamos_date entries of the module in iteration order, each overlaid
\* with its own sub-object keyed by the branch keyword.
BeamosEntries == Sub(GenModule, "beamos_date")
BeamosDatesInOrder == ItemsOrder(BeamosEntries, gen_in.order)
EntryAt(i) == Sub(BeamosEntries, BeamosDatesInOrder[i])
OverlayPaths(i) ==
    DOMAIN EntryAt(i)
        \cup {Tail(p) : p \in {x \in DOMAIN EntryAt(i) : x[1] = GenTierversion /\ Len(x) > 1}}
OverlayValue(i, p) ==
    IF <<GenTierversion>> \o p \in DOMAIN EntryAt(i)
    THEN EntryAt(i)[<<GenTierversion>> \o p]
    ELSE EntryAt(i)[p]

OnOrBefore(i) == ParseDate(BeamosDatesInOrder[i]) <= gen_in.beamos_date
\* merged by the code: dated on or before the device's date, and no entry
\* dated exactly the device's date was iterated before it
MergedEntry(i) ==
    /\ OnOrBefore(i)
    /\ SentinelDate < gen_in.beamos_date
    /\ \A j \in 1..(i - 1) : ParseDate(BeamosDatesInOrder[j]) # gen_in.beamos_date

\* the override is the accumulation, in iteration order, of the entries of
\* `merged`, later ones winning
AccumulationOf(merged) ==
    LET out == beamos_out.value
        Defining(p) == {i \in merged : p \in OverlayPaths(i)}
        Last(p) == CHOOSE i \in Defining(p) : \A j \in Defining(p) : j <= i
    IN  /\ DOMAIN out = UNION {OverlayPaths(i) : i \in merged}
        /\ \A p \in DOMAIN out : out[p] = OverlayValue(Last(p), p)

BeamosIndices == 1..Len(BeamosDatesInOrder)

\* C9 as stated: every entry dated on or before the device's image date is
\* merged and no later one, in iteration order, later-iterated entries
\* winning, each overlaid with its branch-keyword sub-object; without
\* beamos_date the override is empty.
C9_MergesEveryEntryUpToDate ==
    ~beamos_out.none =>
        /\ "beamos_date" \notin Keys(GenModule) => beamos_out.value = EmptyDict
        /\ AccumulationOf({i \in BeamosIndices : OnOrBefore(i)})

\* C9 amended: an entry dated on or before the device's image date is merged
\* exactly when no entry dated exactly the device's date was iterated before
\* it; the rest as stated.
C9_MergesUntilExactDate ==
    ~beamos_out.none =>
        /\ "beamos_date" \notin Keys(GenModule) => beamos_out.value = EmptyDict
        /\ AccumulationOf({i \in BeamosIndices : MergedEntry(i)})

\* Two entries on or before the device's date, none of them dated exactly the
\* device's date: both are merged, the later-iterated one wins the shared key.
C9_Witness ==
    /\ ~beamos_out.none
    /\ gen_in.beamos_date = 20211201
    /\ gen_in.order = <<Date2, Date1>>
    /\ {i \in BeamosIndices : MergedEntry(i)} = {1, 2}
    /\ beamos_out.value[<<"k">>] = "module.date1"
    /\ <<"n", "k">> \in DOMAIN beamos_out.value

(***************************************************************************)
(* Claims about get_tag_of_github_repo, checked under SpecTag.             *)
(***************************************************************************)
TagCalled == tag_out # TagNotCalled
ListedVersions == {t.nums : t \in tag_in.tags}
EligibleVersions == {v \in ListedVersions : v[1] = 0}

\* C10: on a timeout (connect or read), exhausted retries, a 4xx/5xx status
\* or a failed connection the function returns no value and raises nothing;
\* on a successful response listing (well-formed) tags it returns the greatest
\* version with major component 0, and no value when no tag is eligible.
C10_TagOrNothing ==
    TagCalled =>
        /\ tag_in.outcome # "ok" => tag_out.raised = "" /\ tag_out.ret.none
        /\ (tag_in.outcome = "ok" /\ \A t \in tag_in.tags : SemverValid(t)) =>
              /\ tag_out.raised = ""
              /\ EligibleVersions = {} => tag_out.ret.none
              /\ EligibleVersions # {} =>
                    /\ ~tag_out.ret.none
                    /\ tag_out.ret.value \in EligibleVersions
                    /\ \A v \in EligibleVersions : ~SemverLess(tag_out.ret.value, v)

\* A response listing 0.1.0, 0.2.0 and 2.1.0: 0.2.0 is returned.
C10_Witness ==
    /\ TagCalled
    /\ ListedVersions = {<<0, 1, 0>>, <<0, 2, 0>>, <<2, 1, 0>>}
    /\ tag_out.ret = Some(<<0, 2, 0>>)

(***************************************************************************)
(* Claims about get_update_information and the channel switch, checked     *)
(* under SpecUpdate.                                                       *)
(***************************************************************************)
UpdateCalled == call.op = "get_update_information"
KnownTiers == {"PROD", "BETA", "ALPHA", "DEV"}
DefaultModuleIds == {"mrbeam", "mrbeamdoc", "netconnectd", "findmymrbeam"}

\* What the generation pipeline returns for the hardcoded default document
\* in the circumstances of the last call
DefaultGenerated ==
    SetInfoFromCloudConfig(call.before.software_tier, device_beamos_date, DefaultDoc,
                           call.in.order, call.in.write_ok).ret

\* The tag lookup of the last call, and the ways it obtains no cloud config
\* or a non-empty one
CallTag == GetTagOfGithubRepo(call.in.outcome, call.in.tags)
CallHasTag == call.in.online /\ CallTag.raised = "" /\ ~CallTag.ret.none
ObtainsNoCloudConfig ==
    /\ call.in.fault = ""
    /\ \/ ~call.in.online
       \/ call.in.online /\ CallTag.raised = "" /\ CallTag.ret.none
       \/ CallHasTag /\ call.in.doc.kind = "empty"
ObtainsCloudConfig ==
    /\ call.in.fault \notin {"settings_get", "get_beamos_version", "check_immediately",
                             "get_file_of_repo_for_tag"}
    /\ CallHasTag
    /\ call.in.doc.kind # "empty"

\* C4: whichever step of get_update_information raises an unexpected
\* exception, nothing reaches the caller and the value returned is the one
\* generated from the hardcoded default document.
C4_FaultsEndInDefault ==
    UpdateCalled /\ call.result.failed # "" =>
        /\ call.result.propagated = ""
        /\ call.result.ret = DefaultGenerated

\* C5: a call that obtains no cloud config shows missing_updateinformation_info,
\* then empties the version cache and sets its dirty flag, then returns what the
\* default document generates, which for a known tier (the file written) are
\* records for exactly mrbeam, mrbeamdoc, netconnectd and findmymrbeam; a call
\* that obtained a non-empty cloud config shows no such notification and leaves
\* the update checker as it was.
C5_NoCloudConfigFallsBack ==
    UpdateCalled =>
        /\ ObtainsNoCloudConfig =>
              /\ Len(call.result.events) >= 2
              /\ SubSeq(call.result.events, 1, 2)
                    = <<"missing_updateinformation_info", "_clear_version_cache">>
              /\ sw_update_plugin.version_cache = {}
              /\ sw_update_plugin.version_cache_dirty = TRUE
              /\ sw_update_plugin.refresh_configured_checks
                    = call.before.sw.refresh_configured_checks
              /\ call.result.propagated = ""
              /\ call.result.path = "default"
              /\ call.result.ret = DefaultGenerated
              /\ call.before.software_tier \in KnownTiers /\ call.in.write_ok =>
                    /\ ~call.result.ret.none
                    /\ DOMAIN call.result.ret.value = DefaultModuleIds
        /\ ObtainsCloudConfig =>
              /\ \A i \in 1..Len(call.result.events) :
                    call.result.events[i] \notin {"missing_updateinformation_info",
                                                  "_clear_version_cache"}
              /\ sw_update_plugin = call.before.sw
C5_Witness ==
    /\ UpdateCalled /\ ObtainsNoCloudConfig
    /\ call.in.online /\ CallTag.ret.none
    /\ call.before.sw.version_cache # {} /\ ~call.before.sw.version_cache_dirty
    /\ sw_update_plugin.version_cache = {} /\ sw_update_plugin.version_cache_dirty
    /\ ~call.result.ret.none
    /\ call.result.ret.value["mrbeamdoc"][<<"displayName">>] = "Mr Beam Documentation"

\* C6: a switch_software_channel call whose channel is not available or is
\* the stored tier changes neither the stored tier nor the update checker's
\* cache and flags; any other call stores the channel, empties the cache and
\* sets the dirty and the refresh flag; so outside a development environment
\* the stored tier never becomes ALPHA or DEV.
AvailableChannels ==
    IF is_dev_env THEN {"PROD", "BETA", "ALPHA", "DEV"} ELSE {"PROD", "BETA"}
C6_SwitchChangesOrLeaves ==
    call.op = "switch_software_channel" =>
        /\ IF call.channel \notin AvailableChannels \/ call.channel = call.before.software_tier
           THEN /\ software_tier = call.before.software_tier
                /\ sw_update_plugin = call.before.sw
           ELSE /\ software_tier = call.channel
                /\ sw_update_plugin.version_cache = {}
                /\ sw_update_plugin.version_cache_dirty = TRUE
                /\ sw_update_plugin.refresh_configured_checks = TRUE
        /\ ~is_dev_env /\ software_tier # call.before.software_tier =>
              software_tier \notin {"ALPHA", "DEV"}
C6_Witness ==
    /\ call.op = "switch_software_channel"
    /\ call.channel = "BETA" /\ call.before.software_tier = "DEV" /\ ~is_dev_env
    /\ call.before.sw.version_cache # {}
    /\ ~call.before.sw.refresh_configured_checks
    /\ software_tier = "BETA"
    /\ sw_update_plugin = SwUpdatePlugin({}, TRUE, TRUE)

\* C7: when update_info.json cannot be written, the generation shows
\* write_error_update_info_file_err and the caller of get_update_information
\* receives no value, on the cloud path and on the default path alike, though
\* the records of the modules had been computed.
C7_WriteFailureReturnsNothing ==
    UpdateCalled /\ ~call.in.write_ok /\ call.result.propagated = "" =>
        /\ call.result.path \in {"cloud", "default"}
        /\ call.result.events[Len(call.result.events)] = "write_error_update_info_file_err"
        /\ call.result.ret.none
        /\ call.result.written.none
        /\ ~call.result.computed.none
        /\ call.result.computed.value =
              ModuleRecords(call.before.software_tier, device_beamos_date,
                            IF call.result.path = "cloud" THEN call.in.doc ELSE DefaultDoc,
                            call.in.order)
C7_Witness ==
    /\ UpdateCalled /\ ~call.in.write_ok
    /\ call.result.path = "cloud"
    /\ call.result.ret.none
    /\ "mrbeam" \in DOMAIN call.result.computed.value
    /\ call.result.computed.value["mrbeam"][<<"branch">>] = "mrbeam2-beta"


(***************************************************************************)
(* Claims about the default-profile assignment, checked under              *)
(* SpecMigration.                                                          *)
(***************************************************************************)
AssignmentRan == mig.called /\ ~mig.propagated /\ mig.assigned.exc = ""
OthersUnchanged(id) ==
    /\ DOMAIN mig.assigned.profiles = DOMAIN mig.profiles_before \cup {id}
    /\ \A i \in DOMAIN mig.profiles_before \ {id} :
          mig.assigned.profiles[i] = mig.profiles_before[i]

\* C11: with the generic 'my_default' as default on a series 2C device the
\* assignment makes an existing MrBeam2C the default and changes no stored
\* profile, or else saves a profile MrBeam2C / MrBeam2 / C with
\* legacy.job_done_home_position_x = 250 and makes it the default; with a
\* non-generic default it changes neither the profile store nor the version.
C11_AssignmentFor2C ==
    AssignmentRan =>
        /\ mig.default_before = "my_default" /\ mig.series = "2C" =>
              /\ mig.assigned.default_id = "MrBeam2C"
              /\ IF "MrBeam2C" \in DOMAIN mig.profiles_before
                 THEN mig.assigned.profiles = mig.profiles_before
                 ELSE /\ OthersUnchanged("MrBeam2C")
                      /\ mig.assigned.profiles["MrBeam2C"].id = "MrBeam2C"
                      /\ mig.assigned.profiles["MrBeam2C"].name = "MrBeam2"
                      /\ mig.assigned.profiles["MrBeam2C"].model = "C"
                      /\ mig.assigned.profiles["MrBeam2C"].job_done_home_position_x = 250
        /\ mig.default_before # "my_default" =>
              /\ mig.assigned.profiles = mig.profiles_before
              /\ mig.assigned.default_id = mig.default_before
              /\ mig.assigned.version = mig.previous
C11_Witness ==
    /\ AssignmentRan
    /\ mig.default_before = "my_default" /\ mig.series = "2C"
    /\ "MrBeam2C" \in DOMAIN mig.profiles_before
    /\ mig.profiles_before["MrBeam2C"].model = "B"
    /\ mig.assigned.default_id = "MrBeam2C"
    /\ mig.assigned.profiles["MrBeam2C"].model = "B"


(***************************************************************************)
(* Claims about software_channels_available, checked under SpecUpdate.     *)
(***************************************************************************)
ExpectedChannels ==
    IF is_dev_env THEN <<"PROD", "BETA", "ALPHA", "DEV">> ELSE <<"PROD", "BETA">>
ElementsOf(list) == {list[i] : i \in 1..Len(list)}
EachOnce(list, tiers) == ElementsOf(list) = tiers /\ Len(list) = Cardinality(tiers)

\* C12: whatever calls were made before, software_channels_available returns
\* exactly PROD and BETA outside a development environment and exactly PROD,
\* BETA, ALPHA and DEV, each once, inside one: every call made returned that,
\* and a call made now would.
C12_ChannelsAreStable ==
    /\ EachOnce(SoftwareChannelsAvailable(tiers_prod, is_dev_env).ret,
                ElementsOf(ExpectedChannels))
    /\ call.op = "software_channels_available" =>
          EachOnce(call.ret, IF is_dev_env THEN {"PROD", "BETA", "ALPHA", "DEV"}
                             ELSE {"PROD", "BETA"})
C12_Witness ==
    /\ call.op = "software_channels_available"
    /\ call.earlier = "software_channels_available"
    /\ is_dev_env
    /\ call.ret = <<"PROD", "BETA", "ALPHA", "DEV">>


(***************************************************************************)
(* Claims about setup_iptables, checked under SpecMigration.               *)
(***************************************************************************)
IptablesNames == <<"iptables_write", "iptables_chmod", "iptables_execute">>
IsIptablesStep(x) == x \in {"iptables_write", "iptables_chmod", "iptables_execute"}
IptablesLog == SelectSeq(mig.log, IsIptablesStep)
SetupIptablesRan ==
    mig.called /\ ~mig.propagated /\ Len(IptablesLog) > 0

\* C13: setup_iptables runs write, chmod +x, execute in this order, each
\* only after the one before exited with 0; after a non-zero exit the
\* remaining sub-steps are skipped, nothing is raised, and run() goes on to
\* save_current_version, which stores the current version.
C13_IptablesStepsInOrder ==
    SetupIptablesRan =>
        /\ IptablesLog = SubSeq(IptablesNames, 1, Len(IptablesLog))
        /\ \A k \in 1..(Len(IptablesLog) - 1) : mig.cmds[k] = "ok"
        /\ mig.cmds[Len(IptablesLog)] = "fail" =>
              /\ mig.exc # "OSError"
              /\ mig.log[Len(mig.log)] = "save_current_version"
              /\ mig.exc = "" => mig.version = mig.current
C13_Witness ==
    /\ SetupIptablesRan
    /\ IptablesLog = <<"iptables_write", "iptables_chmod">>
    /\ mig.cmds[2] = "fail"
    /\ mig.exc = ""
    /\ mig.iptables = "written"
    /\ mig.previous # mig.current /\ mig.version = mig.current


(***************************************************************************)
(* Claims about _exec_cmd_output, checked under SpecMigration on the       *)
(* commands setup_iptables runs.                                           *)
(***************************************************************************)
\* What the helper did with each command that was run
HelperResults == [k \in 1..Len(IptablesLog) |-> ExecCmdOutput(mig.cmds[k])]

\* C14: _exec_cmd_output returns (output, exit code) whatever happens to the
\* command - exit code 0, another exit code, or no start at all - and raises
\* nothing.
C14_HelperAlwaysReturns ==
    mig.called /\ ~mig.propagated =>
        \A k \in 1..Len(IptablesLog) :
            /\ ~HelperResults[k].raised
            /\ mig.cmds[k] = "ok" => HelperResults[k].code = 0
            /\ mig.cmds[k] = "fail" => HelperResults[k].code # 0


(***************************************************************************)
(* Claims about the stored version over successive startups, checked       *)
(* under SpecMigration.                                                    *)
(***************************************************************************)
MigrationApplies ==
    mig.called /\ ~mig.propagated /\ IsMigrationRequired(mig.previous, mig.current) = "True"
AssignmentStored == AssignmentSaves /\ mig.assigned.exc = ""

\* C15: no run of migrate ends with 'version' equal to the current plugin
\* version while a gated step applicable in that run was not executed.
C15_VersionOnlyAfterAllSteps ==
    MigrationApplies /\ settings_version = mig.current =>
        GatedLog = ExpectedSteps(mig.previous)

\* C15, amended: that holds for the runs in which the default-profile
\* assignment did not store the version, and in them a run that an exception
\* ended leaves 'version' as it was, so the same steps apply at the next
\* startup; a run whose assignment stored the version ends with 'version'
\* equal to the current version whatever became of the gated steps.
C15_VersionAfterStepsUnlessAssigned ==
    MigrationApplies =>
        /\ ~AssignmentStored /\ settings_version = mig.current =>
              GatedLog = ExpectedSteps(mig.previous)
        /\ ~AssignmentStored /\ mig.exc # "" => settings_version = mig.previous
        /\ AssignmentStored => settings_version = mig.current
C15_Witness ==
    /\ MigrationApplies /\ ~AssignmentStored
    /\ mig.exc # ""
    /\ GatedLog = <<"migrate_from_0_0_0", "delete_egg_dir_leftovers">>
    /\ ExpectedSteps(mig.previous)
          = <<"migrate_from_0_0_0", "delete_egg_dir_leftovers", "setup_iptables">>
    /\ settings_version = mig.previous /\ mig.previous # mig.current

=============================================================================
